---- MODULE Spec2Model ----
(***************************************************************************)
(* A model of src/app.py: the personal-expense aggregation helpers, the    *)
(* budget alerts, the shared-expense ledger and the routes that change the *)
(* three collections.                                                       *)
(*                                                                         *)
(* Representation.                                                         *)
(*  - A collection is a sequence of documents in insertion order; the      *)
(*    position of a document stands for its ObjectId.                      *)
(*  - A text that the code takes apart (the participants form field) is a  *)
(*    sequence of one-character strings; a date text "%Y-%m-%d" is the     *)
(*    triple <<year, month, day>> of its three numbers.                    *)
(*  - Amounts are counted in hundredths, and sums of them are exact: the   *)
(*    representation error of binary floating point is not modelled.       *)
(*  - description, payment_mode and created_at are written once and never  *)
(*    read by any helper; they are left out of the documents.              *)
(***************************************************************************)
EXTENDS Integers, Sequences, FiniteSets, TLC

VARIABLES
  expenses,   \* expenses_collection
  budgets,    \* budgets_collection (only ever read by the program)
  shared,     \* shared_collection
  clock,      \* <<year, month, day>> of the wall clock, as datetime.now() reads it
  num,        \* the argument of a stand-alone month_name call
  named,      \* the outcome of that call
  balances    \* the outcome of a stand-alone calculate_net_balances call

vars == <<expenses, budgets, shared, clock, num, named, balances>>

(***************************************************************************)
(* Bounds of the model.                                                    *)
(***************************************************************************)
MaxExpenses == 2
MaxBudgets == 1
MaxShared == 2
MaxDaysElapsed == 2
MaxLedger == 2
MaxNum == 30

StartClock == <<2025, 12, 30>>

Amounts == {500, 1000}
Categories == {"food", "rent"}
Dates == {<<2025, 12, 15>>, <<2026, 1, 15>>, <<2026, 2, 15>>, <<2026, 13, 1>>}
Limits == {0, 500}
QueryYears == {2024, 2025, 2026}
Methods == {"GET", "POST"}

\* The form fields of a shared expense.  Totals are whole currency units,
\* in hundredths.
Totals == {9000, 10000}
Payers == {<<"A">>, <<"B">>}
ParticipantTexts ==
  { <<>>,                                   \* ""
    <<"A", ",", " ", "B">>,                 \* "A, B"
    <<"B", ",", "B">>,                      \* "B,B"
    <<" ", "B", " ", ",", ",", "C">> }      \* " B ,,C"

(***************************************************************************)
(* Python values.                                                          *)
(***************************************************************************)
\* None where an integer may stand (month=None, year=None): 0 and None are
\* both false in `if month:`.
NoneInt == 0
\* None where a date text may stand (settled_at).
NoneDate == <<>>

\* d.setdefault(k, 0); d[k] += delta   (also totals.get(k, 0) + delta)
AddTo(d, k, delta) ==
  IF k \in DOMAIN d THEN [d EXCEPT ![k] = @ + delta] ELSE d @@ (k :> delta)

\* sum(exp["amount"] for exp in cursor): a left fold from 0
RECURSIVE SumAmounts(_)
SumAmounts(docs) ==
  IF docs = <<>> THEN 0
  ELSE SumAmounts(SubSeq(docs, 1, Len(docs) - 1)) + docs[Len(docs)].amount

(***************************************************************************)
(* Utility helpers.                                                        *)
(***************************************************************************)
IsLeap(y) == (y % 4 = 0 /\ y % 100 # 0) \/ y % 400 = 0

DaysInMonth(y, m) ==
  IF m = 2 THEN (IF IsLeap(y) THEN 29 ELSE 28)
  ELSE IF m \in {4, 6, 9, 11} THEN 30 ELSE 31

\* datetime.strptime(date_str, "%Y-%m-%d"): a ValueError unless the numbers
\* form a calendar date.
parse_date(date_str) ==
  IF /\ date_str[1] \in 1..9999
     /\ date_str[2] \in 1..12
     /\ date_str[3] \in 1..DaysInMonth(date_str[1], date_str[2])
  THEN [err |-> "none", year |-> date_str[1], month |-> date_str[2]]
  ELSE [err |-> "ValueError", year |-> 0, month |-> 0]

now_year_month == <<clock[1], clock[2]>>

\* calendar.month_name._months: thirteen entries, the first one empty.
MonthNames ==
  <<"", "January", "February", "March", "April", "May", "June", "July",
    "August", "September", "October", "November", "December">>

\* calendar.month_name[num] is Python list indexing of the thirteen entries:
\* 0-based, a negative index counts from the end, anything else IndexError.
month_name(n) ==
  IF n >= 0 /\ n < Len(MonthNames)
  THEN [err |-> "none", val |-> MonthNames[n + 1]]
  ELSE IF n < 0 /\ n >= -Len(MonthNames)
  THEN [err |-> "none", val |-> MonthNames[Len(MonthNames) + n + 1]]
  ELSE [err |-> "IndexError", val |-> ""]

(***************************************************************************)
(* Dashboard calculation helpers.  Each takes the collection it reads.     *)
(***************************************************************************)
\* get_monthly_total with the is_deleted condition of its query left out.
get_monthly_total_counts_deleted(coll, month, year) ==
  LET Match(exp) == /\ exp.month = month
                    /\ exp.year = year
                    /\ exp.is_shared = FALSE
  IN SumAmounts(SelectSeq(coll, Match))

get_monthly_total(coll, month, year) ==
  LET Match(exp) == /\ exp.month = month
                    /\ exp.year = year
                    /\ exp.is_deleted = FALSE
                    /\ exp.is_shared = FALSE
  IN SumAmounts(SelectSeq(coll, Match))

get_yearly_total(coll, year) ==
  LET Match(exp) == /\ exp.year = year
                    /\ exp.is_deleted = FALSE
                    /\ exp.is_shared = FALSE
  IN SumAmounts(SelectSeq(coll, Match))

RECURSIVE GroupByCategory(_)
GroupByCategory(docs) ==
  IF docs = <<>> THEN <<>>
  ELSE LET exp == docs[Len(docs)]
       IN AddTo(GroupByCategory(SubSeq(docs, 1, Len(docs) - 1)),
                exp.category, exp.amount)

get_category_totals(coll, month, year) ==
  LET Match(exp) == /\ exp.is_deleted = FALSE
                    /\ exp.is_shared = FALSE
                    /\ (month # NoneInt => exp.month = month)
                    /\ (year # NoneInt => exp.year = year)
  IN GroupByCategory(SelectSeq(coll, Match))

\* months_to_show without the current-year case.
months_to_show_full_year(year) == 12

months_to_show(year) ==
  IF year = now_year_month[1] THEN now_year_month[2] ELSE 12

RECURSIVE FillBreakdown(_, _, _)
FillBreakdown(breakdown, docs, k) ==
  IF docs = <<>> THEN breakdown
  ELSE LET exp == docs[Len(docs)]
           sofar == FillBreakdown(breakdown, SubSeq(docs, 1, Len(docs) - 1), k)
       IN IF exp.month <= k
          THEN [sofar EXCEPT ![month_name(exp.month).val] = @ + exp.amount]
          ELSE sofar

\* get_monthly_breakdown with the is_deleted condition of its query left out.
get_monthly_breakdown_counts_deleted(coll, year) ==
  LET k == months_to_show(year)
      Match(exp) == /\ exp.year = year
                    /\ exp.is_shared = FALSE
      zero == [name \in {month_name(m).val : m \in 1..k} |-> 0]
  IN FillBreakdown(zero, SelectSeq(coll, Match), k)

get_monthly_breakdown(coll, year) ==
  LET k == months_to_show(year)
      Match(exp) == /\ exp.year = year
                    /\ exp.is_deleted = FALSE
                    /\ exp.is_shared = FALSE
      zero == [name \in {month_name(m).val : m \in 1..k} |-> 0]
  IN FillBreakdown(zero, SelectSeq(coll, Match), k)

RECURSIVE CollectAlerts(_, _)
CollectAlerts(bs, totals) ==
  IF bs = <<>> THEN <<>>
  ELSE LET b == bs[Len(bs)]
           spent == IF b.category \in DOMAIN totals THEN totals[b.category] ELSE 0
           alerts == CollectAlerts(SubSeq(bs, 1, Len(bs) - 1), totals)
       IN IF spent > b.monthly_limit
          THEN Append(alerts, [category |-> b.category,
                               limit |-> b.monthly_limit,
                               spent |-> spent])
          ELSE alerts

\* budget_alerts alerting from the limit on (>= for >).
RECURSIVE CollectAlertsFromLimit(_, _)
CollectAlertsFromLimit(bs, totals) ==
  IF bs = <<>> THEN <<>>
  ELSE LET b == bs[Len(bs)]
           spent == IF b.category \in DOMAIN totals THEN totals[b.category] ELSE 0
           alerts == CollectAlertsFromLimit(SubSeq(bs, 1, Len(bs) - 1), totals)
       IN IF spent >= b.monthly_limit
          THEN Append(alerts, [category |-> b.category,
                               limit |-> b.monthly_limit,
                               spent |-> spent])
          ELSE alerts

budget_alerts_from_limit(coll, bs, month, year) ==
  CollectAlertsFromLimit(bs, get_category_totals(coll, month, year))

budget_alerts(coll, bs, month, year) ==
  CollectAlerts(bs, get_category_totals(coll, month, year))

(***************************************************************************)
(* Routes -- personal expenses.                                            *)
(***************************************************************************)
add_expense(method, amount, category, date) ==
  /\ Len(expenses) < MaxExpenses
  /\ IF method = "POST" /\ parse_date(date).err = "none"
     THEN expenses' = Append(expenses,
            [amount |-> amount,
             category |-> category,
             date |-> date,
             month |-> parse_date(date).month,
             year |-> parse_date(date).year,
             is_shared |-> FALSE,
             is_deleted |-> FALSE])
     ELSE UNCHANGED expenses
  /\ UNCHANGED <<budgets, shared, clock, num, named, balances>>

\* update_one on an _id no document has matches nothing.
delete_expense(expense_id) ==
  /\ expenses' = [i \in DOMAIN expenses |->
                    IF i = expense_id
                    THEN [expenses[i] EXCEPT !.is_deleted = TRUE]
                    ELSE expenses[i]]
  /\ UNCHANGED <<budgets, shared, clock, num, named, balances>>

\* The day after a date.
NextDay(date) ==
  IF date[3] < DaysInMonth(date[1], date[2]) THEN <<date[1], date[2], date[3] + 1>>
  ELSE IF date[2] < 12 THEN <<date[1], date[2] + 1, 1>>
  ELSE <<date[1] + 1, 1, 1>>

RECURSIVE AddDays(_, _)
AddDays(date, n) == IF n = 0 THEN date ELSE NextDay(AddDays(date, n - 1))

\* The wall clock passes into the next day.
TickDay ==
  /\ clock # AddDays(StartClock, MaxDaysElapsed)
  /\ clock' = NextDay(clock)
  /\ UNCHANGED <<expenses, budgets, shared, num, named, balances>>

InitRest ==
  /\ shared = <<>>
  /\ clock = StartClock
  /\ num = 0
  /\ named = [err |-> "pending", val |-> ""]
  /\ balances = [done |-> FALSE, val |-> <<>>]

InitExpenses ==
  /\ expenses = <<>>
  /\ budgets = <<>>
  /\ InitRest

NextExpenses ==
  \/ \E method \in Methods, amount \in Amounts, category \in Categories,
        date \in Dates : add_expense(method, amount, category, date)
  \/ \E expense_id \in 1..(MaxExpenses + 1) : delete_expense(expense_id)
  \/ TickDay

SpecExpenses == InitExpenses /\ [][NextExpenses]_vars

(***************************************************************************)
(* Shared expense helpers.                                                 *)
(***************************************************************************)
\* Debit assigning the share instead of subtracting it (= for -=).
RECURSIVE DebitAssigns(_, _, _)
DebitAssigns(bal, participants, per_person) ==
  IF participants = <<>> THEN bal
  ELSE LET rest == DebitAssigns(bal, SubSeq(participants, 1, Len(participants) - 1),
                                per_person)
           p == participants[Len(participants)]
       IN IF p \in DOMAIN rest THEN [rest EXCEPT ![p] = -per_person]
          ELSE rest @@ (p :> -per_person)

\* for p in participants: balances.setdefault(p, 0); balances[p] -= per_person
RECURSIVE Debit(_, _, _)
Debit(bal, participants, per_person) ==
  IF participants = <<>> THEN bal
  ELSE AddTo(Debit(bal, SubSeq(participants, 1, Len(participants) - 1), per_person),
             participants[Len(participants)], -per_person)

\* ApplyRecord leaving the payer out of the debits.
ApplyRecordSparingPayer(bal, exp) ==
  LET Other(p) == p # exp.paid_by
  IN Debit(AddTo(bal, exp.paid_by, exp.total_amount),
           SelectSeq(exp.participants, Other), exp.per_person_amount)

\* The body of the loop of calculate_net_balances for one document.
ApplyRecord(bal, exp) ==
  Debit(AddTo(bal, exp.paid_by, exp.total_amount),
        exp.participants, exp.per_person_amount)

RECURSIVE Accumulate(_)
Accumulate(docs) ==
  IF docs = <<>> THEN <<>>
  ELSE ApplyRecord(Accumulate(SubSeq(docs, 1, Len(docs) - 1)), docs[Len(docs)])

\* calculate_net_balances reading every document, settled ones included.
calculate_net_balances_reads_settled(coll) == Accumulate(coll)

calculate_net_balances(coll) ==
  LET Match(exp) == exp.is_settled = FALSE
  IN Accumulate(SelectSeq(coll, Match))

(***************************************************************************)
(* Routes -- shared expenses.                                              *)
(***************************************************************************)
Whitespace == {" "}

\* str.strip()
RECURSIVE strip(_)
strip(p) ==
  IF p = <<>> THEN p
  ELSE IF p[1] \in Whitespace THEN strip(Tail(p))
  ELSE IF p[Len(p)] \in Whitespace THEN strip(SubSeq(p, 1, Len(p) - 1))
  ELSE p

\* str.split(","): the pieces between the commas, empty ones included.
RECURSIVE split(_)
split(text) ==
  IF \A i \in DOMAIN text : text[i] # ","
  THEN <<text>>
  ELSE LET i == CHOOSE i \in DOMAIN text :
                  text[i] = "," /\ \A j \in 1..(i - 1) : text[j] # ","
       IN <<SubSeq(text, 1, i - 1)>> \o split(SubSeq(text, i + 1, Len(text)))

RECURSIVE StripAll(_)
StripAll(pieces) ==
  IF pieces = <<>> THEN <<>>
  ELSE <<strip(Head(pieces))>> \o StripAll(Tail(pieces))

\* others comparing the piece as typed, not stripped, with paid_by.
others_compares_unstripped(paid_by, text) ==
  LET pieces == split(text)
      kept == {i \in DOMAIN pieces : strip(pieces[i]) # <<>> /\ pieces[i] # paid_by}
      RECURSIVE Take(_)
      Take(i) == IF i > Len(pieces) THEN <<>>
                 ELSE IF i \in kept THEN <<strip(pieces[i])>> \o Take(i + 1)
                 ELSE Take(i + 1)
  IN Take(1)

\* [p.strip() for p in text.split(",") if p.strip() and p.strip() != paid_by]
others(paid_by, text) ==
  LET Keep(p) == p # <<>> /\ p # paid_by
  IN SelectSeq(StripAll(split(text)), Keep)

\* round(total / n, 2) in hundredths: the nearest hundredth; where the
\* quotient lies half way between two hundredths the float decides, and
\* either neighbour may come out.
round2(total, n) ==
  LET q == total \div n
      r == total % n
  IN IF 2 * r < n THEN {q}
     ELSE IF 2 * r > n THEN {q + 1}
     ELSE {q, q + 1}

add_shared_expense(method, title, total_amount, paid_by, text, date) ==
  /\ Len(shared) < MaxShared
  /\ IF method = "POST"
     THEN LET people == <<paid_by>> \o others(paid_by, text)
          IN \E per_person \in round2(total_amount, Len(people)) :
               shared' = Append(shared,
                 [title |-> title,
                  total_amount |-> total_amount,
                  paid_by |-> paid_by,
                  participants |-> people,
                  per_person_amount |-> per_person,
                  date |-> date,
                  is_settled |-> FALSE,
                  settled_at |-> NoneDate])
     ELSE UNCHANGED shared
  /\ UNCHANGED <<expenses, budgets, clock, num, named, balances>>

\* datetime.strftime("%Y-%m-%d"): the text of the year, the month and the day.
strftime(datetime) == <<datetime[1], datetime[2], datetime[3]>>

\* update_one on an _id no document has matches nothing.
settle_shared_expense(expense_id) ==
  /\ shared' = [i \in DOMAIN shared |->
                  IF i = expense_id
                  THEN [shared[i] EXCEPT !.is_settled = TRUE,
                                         !.settled_at = strftime(clock)]
                  ELSE shared[i]]
  /\ UNCHANGED <<expenses, budgets, clock, num, named, balances>>

InitShared ==
  /\ expenses = <<>>
  /\ budgets = <<>>
  /\ shared = <<>>
  /\ clock = StartClock
  /\ num = 0
  /\ named = [err |-> "pending", val |-> ""]
  /\ balances = [done |-> FALSE, val |-> <<>>]

NextShared ==
  \/ \E method \in Methods, total_amount \in Totals, paid_by \in Payers,
        text \in ParticipantTexts :
       add_shared_expense(method, "trip", total_amount, paid_by, text,
                          <<2026, 11, 1>>)
  \/ \E expense_id \in 1..(MaxShared + 1) : settle_shared_expense(expense_id)
  \/ TickDay

SpecShared == InitShared /\ [][NextShared]_vars

\* GET /shared/balances: one reading of the balances.
shared_balances ==
  /\ ~balances.done
  /\ balances' = [done |-> TRUE, val |-> calculate_net_balances(shared)]
  /\ UNCHANGED <<expenses, budgets, shared, clock, num, named>>

\* calculate_net_balances on its own: any small collection of shared-expense
\* documents, whoever wrote them.
LedgerDocs ==
  {[title |-> "trip",
    total_amount |-> t,
    paid_by |-> pb,
    participants |-> ps,
    per_person_amount |-> 3000,
    date |-> <<2026, 11, 1>>,
    is_settled |-> st,
    settled_at |-> IF st THEN StartClock ELSE NoneDate] :
     t \in {9000, 6000}, pb \in {<<"A">>, <<"B">>},
     ps \in {<<>>, <<<<"B">>, <<"C">>>>, <<<<"A">>, <<"B">>>>, <<<<"B">>, <<"B">>>>},
     st \in BOOLEAN}

InitLedger ==
  /\ expenses = <<>>
  /\ budgets = <<>>
  /\ shared \in UNION {[1..n -> LedgerDocs] : n \in 0..MaxLedger}
  /\ clock = StartClock
  /\ num = 0
  /\ named = [err |-> "pending", val |-> ""]
  /\ balances = [done |-> FALSE, val |-> <<>>]

NextLedger == shared_balances

SpecLedger == InitLedger /\ [][NextLedger]_vars

\* month_name on its own: one call with any small integer.
MonthNameCall ==
  /\ named.err = "pending"
  /\ named' = month_name(num)
  /\ UNCHANGED <<expenses, budgets, shared, clock, num, balances>>

InitMonthName ==
  /\ expenses = <<>>
  /\ budgets = <<>>
  /\ shared = <<>>
  /\ clock = StartClock
  /\ num \in -MaxNum..MaxNum
  /\ named = [err |-> "pending", val |-> ""]
  /\ balances = [done |-> FALSE, val |-> <<>>]

NextMonthName == MonthNameCall

SpecMonthName == InitMonthName /\ [][NextMonthName]_vars

(***************************************************************************)
(* The budgets collection is managed outside the program: any small        *)
(* collection may be there when the program runs.                          *)
(***************************************************************************)
BudgetDocs == [category : Categories, monthly_limit : Limits]

BudgetColls ==
  UNION {[1..n -> BudgetDocs] : n \in 0..MaxBudgets}

InitBudgets ==
  /\ expenses = <<>>
  /\ budgets \in BudgetColls
  /\ InitRest

NextBudgets ==
  \/ \E method \in Methods, amount \in Amounts, category \in Categories,
        date \in Dates : add_expense(method, amount, category, date)
  \/ \E expense_id \in 1..(MaxExpenses + 1) : delete_expense(expense_id)

SpecBudgets == InitBudgets /\ [][NextBudgets]_vars

(***************************************************************************)
(* What the claims speak of, stated over the documents themselves.         *)
(***************************************************************************)
\* The sum of the values of a dict.
RECURSIVE SumValues(_)
SumValues(d) ==
  IF DOMAIN d = {} THEN 0
  ELSE LET k == CHOOSE k \in DOMAIN d : TRUE
       IN d[k] + SumValues([j \in DOMAIN d \ {k} |-> d[j]])

\* The documents of the expense store that count: not deleted, not shared.
Counted == {i \in DOMAIN expenses :
              ~expenses[i].is_deleted /\ ~expenses[i].is_shared}

AmountOf(I) == SumValues([i \in I |-> expenses[i].amount])

Reorderings(coll) ==
  {[i \in DOMAIN coll |-> coll[p[i]]] : p \in Permutations(DOMAIN coll)}

\* K of the breakdown: the current month for the current year, else 12.
CurrentYear == clock[1]
CurrentMonth == clock[2]

K(y) == IF y = CurrentYear THEN CurrentMonth ELSE 12

DisplayName(m) == MonthNames[m + 1]

----------------------------------------------------------------------------
\* C4: after any add_expense / delete_expense, get_monthly_total(m, y) for
\* every month m in 1..12 and year y is the sum of amount over exactly the
\* stored documents of (m, y) that are neither deleted nor shared, whatever
\* the insertion order; it is 0 when none matches.
C4_TotalOfCounted ==
  \A m \in 1..12, y \in QueryYears :
    LET I == {i \in Counted : expenses[i].month = m /\ expenses[i].year = y}
    IN /\ get_monthly_total(expenses, m, y) = AmountOf(I)
       /\ \A coll \in Reorderings(expenses) :
            get_monthly_total(coll, m, y) = AmountOf(I)
       /\ (I = {} => get_monthly_total(expenses, m, y) = 0)

\* C4: a document that has been soft-deleted stays stored and deleted.
C4_DeletedStays ==
  \A i \in DOMAIN expenses :
    expenses[i].is_deleted =>
      i \in DOMAIN expenses' /\ expenses'[i] = expenses[i]

\* C4: the monthly total is the order-independent sum over the counted
\* documents of the month, and a soft-deleted document never counts again.
C4_MonthlyTotal == []C4_TotalOfCounted /\ [][C4_DeletedStays]_vars

\* Two documents of different amounts in one month, one of them deleted after
\* it was added, and the month's total is that of the other one.
C4_Witness ==
  \E i, j \in DOMAIN expenses :
    /\ expenses[i].month = expenses[j].month
    /\ expenses[i].year = expenses[j].year
    /\ expenses[i].amount = 1000 /\ expenses[j].amount = 500
    /\ expenses[i].is_deleted /\ ~expenses[j].is_deleted
    /\ get_monthly_total(expenses, expenses[j].month, expenses[j].year) = 500

----------------------------------------------------------------------------
\* C5: for every year y, with K the current month when y is the current year
\* and 12 otherwise: when K = 12 the values of get_monthly_breakdown(y) sum to
\* get_yearly_total(y); when y is the current year they sum to the amounts of
\* the counted documents of year y whose month is at most the current month.
C5_BreakdownSum ==
  \A y \in QueryYears :
    LET total == SumValues(get_monthly_breakdown(expenses, y))
    IN /\ (K(y) = 12 => total = get_yearly_total(expenses, y))
       /\ (y = CurrentYear =>
             total = AmountOf({i \in Counted : /\ expenses[i].year = y
                                               /\ expenses[i].month <= CurrentMonth}))

\* The current month is before December; the current year holds a counted
\* document of a later month, so its breakdown sums to less than its yearly
\* total; and another year holds a counted document, its breakdown summing to
\* its yearly total.
C5_Witness ==
  /\ CurrentMonth < 12
  /\ \E i \in Counted :
       expenses[i].year = CurrentYear /\ expenses[i].month > CurrentMonth
  /\ SumValues(get_monthly_breakdown(expenses, CurrentYear))
       < get_yearly_total(expenses, CurrentYear)
  /\ \E y \in QueryYears :
       /\ y # CurrentYear
       /\ get_yearly_total(expenses, y) > 0
       /\ SumValues(get_monthly_breakdown(expenses, y)) > 0

----------------------------------------------------------------------------
\* C7: get_monthly_breakdown(year) is zero-filled: for every year, also one
\* with no documents, its keys are exactly the display names of months 1..K,
\* each present even when its sum is 0, each valued with the sum of the
\* counted documents of that month, so that no document of a month beyond K
\* adds to any entry.
C7_ZeroFilled ==
  \A y \in QueryYears :
    LET bd == get_monthly_breakdown(expenses, y)
    IN /\ DOMAIN bd = {DisplayName(m) : m \in 1..K(y)}
       /\ \A m \in 1..K(y) :
            bd[DisplayName(m)] =
              AmountOf({i \in Counted : /\ expenses[i].year = y
                                        /\ expenses[i].month = m})

\* The current month is before December, the current year holds a counted
\* document beyond it and none up to it, and the breakdown is all zero.
C7_Witness ==
  /\ CurrentMonth < 12
  /\ \E i \in Counted : expenses[i].year = CurrentYear /\ expenses[i].month > CurrentMonth
  /\ \A i \in Counted : expenses[i].year = CurrentYear => expenses[i].month > CurrentMonth
  /\ LET bd == get_monthly_breakdown(expenses, CurrentYear)
     IN /\ Cardinality(DOMAIN bd) = CurrentMonth
        /\ \A name \in DOMAIN bd : bd[name] = 0

----------------------------------------------------------------------------
\* C6: for every month, year, expense store and budgets, budget_alerts(month,
\* year) holds an alert for a budget b exactly when the counted spend of
\* b.category in (month, year) is strictly greater than b.monthly_limit:
\* spend equal to the limit never alerts, a budget with no matching spend
\* never alerts (a limit of 0 included), and every alert carries that
\* category, that limit and that spend.
SpendOf(category, m, y) ==
  AmountOf({i \in Counted : /\ expenses[i].category = category
                            /\ expenses[i].month = m
                            /\ expenses[i].year = y})

C6_AlertIffOver ==
  \A m \in 1..12, y \in QueryYears :
    LET alerts == budget_alerts(expenses, budgets, m, y)
        AlertFor(b) == [category |-> b.category,
                        limit |-> b.monthly_limit,
                        spent |-> SpendOf(b.category, m, y)]
        Over == {i \in DOMAIN budgets :
                   SpendOf(budgets[i].category, m, y) > budgets[i].monthly_limit}
    IN /\ \A i \in DOMAIN budgets :
            (\E a \in DOMAIN alerts : alerts[a] = AlertFor(budgets[i]))
              <=> i \in Over
       /\ \A a \in DOMAIN alerts :
            \E i \in Over : alerts[a] = AlertFor(budgets[i])
       /\ Len(alerts) = Cardinality(Over)

\* A budget whose limit is met exactly in one month and exceeded in another:
\* an alert in the second month only.
C6_Witness ==
  \E i \in DOMAIN budgets :
    /\ budgets[i].monthly_limit = 500
    /\ \E m1, m2 \in 1..12, y1, y2 \in QueryYears :
         /\ SpendOf(budgets[i].category, m1, y1) = 500
         /\ budget_alerts(expenses, budgets, m1, y1) = <<>>
         /\ SpendOf(budgets[i].category, m2, y2) = 1000
         /\ budget_alerts(expenses, budgets, m2, y2) =
              <<[category |-> budgets[i].category, limit |-> 500, spent |-> 1000]>>

\* A budget of limit 0 whose category has no spend in some month while the
\* store holds documents: no alert.
C6_WitnessZeroLimit ==
  \E i \in DOMAIN budgets :
    /\ budgets[i].monthly_limit = 0
    /\ expenses # <<>>
    /\ \E m \in 1..12, y \in QueryYears :
         /\ SpendOf(budgets[i].category, m, y) = 0
         /\ budget_alerts(expenses, budgets, m, y) = <<>>

----------------------------------------------------------------------------
Range(seq) == {seq[k] : k \in DOMAIN seq}

Occurrences(seq, p) == Cardinality({k \in DOMAIN seq : seq[k] = p})

\* The balance of a person under a balances map; a person the map does not
\* name has none.
BalanceOf(bal, p) == IF p \in DOMAIN bal THEN bal[p] ELSE 0

\* What one document adds to the balance of person p: its total if p paid,
\* less one share for each time p is listed.
Contribution(r, p) ==
  (IF r.paid_by = p THEN r.total_amount ELSE 0)
    - r.per_person_amount * Occurrences(r.participants, p)

UnsettledOf(coll) == {i \in DOMAIN coll : ~coll[i].is_settled}

PeopleOf(coll, I) ==
  {coll[i].paid_by : i \in I} \cup UNION {Range(coll[i].participants) : i \in I}

ExpectedBalances(coll) ==
  LET U == UnsettledOf(coll)
  IN [p \in PeopleOf(coll, U) |->
        SumValues([i \in {j \in U : coll[j].paid_by = p} |-> coll[i].total_amount])
          - SumValues([i \in U |-> coll[i].per_person_amount
                                     * Occurrences(coll[i].participants, p)])]

Without(coll, i) == SubSeq(coll, 1, i - 1) \o SubSeq(coll, i + 1, Len(coll))

\* The document of the example: A paid 90 for B and C, 30 each.
ExampleDoc ==
  [title |-> "trip", total_amount |-> 9000, paid_by |-> <<"A">>,
   participants |-> <<<<"B">>, <<"C">>>>, per_person_amount |-> 3000,
   date |-> <<2026, 11, 1>>, is_settled |-> FALSE, settled_at |-> NoneDate]

----------------------------------------------------------------------------
----------------------------------------------------------------------------
\* C2: calculate_net_balances returns a map whose keys are exactly the
\* paid_by and participants entries of the unsettled documents, each valued
\* with the totals that person paid less one per_person_amount for each time
\* the person is listed; the example document alone yields A: 90, B: -30,
\* C: -30; and the balances of two unsettled documents are the per-person sum
\* of the balances of each alone.
C2_NetBalances ==
  /\ balances.done => balances.val = ExpectedBalances(shared)
  /\ calculate_net_balances(<<ExampleDoc>>) =
       (<<"A">> :> 9000) @@ (<<"B">> :> -3000) @@ (<<"C">> :> -3000)
  /\ \A i, j \in UnsettledOf(shared) :
       i < j =>
         LET one == calculate_net_balances(<<shared[i]>>)
             two == calculate_net_balances(<<shared[j]>>)
             both == calculate_net_balances(<<shared[i], shared[j]>>)
         IN /\ DOMAIN both = DOMAIN one \cup DOMAIN two
            /\ \A p \in DOMAIN both :
                 both[p] = BalanceOf(one, p) + BalanceOf(two, p)

\* The balances were read from a collection of two unsettled documents, the
\* first the example document, the second paid by B with B listed twice.
C2_Witness ==
  /\ balances.done
  /\ Len(shared) = 2
  /\ shared[1] = ExampleDoc
  /\ shared[2].paid_by = <<"B">> /\ ~shared[2].is_settled
  /\ shared[2].participants = <<<<"B">>, <<"B">>>>
  /\ balances.val[<<"B">>] = -3000 + shared[2].total_amount - 6000

----------------------------------------------------------------------------
\* C3: a settled document adds to no balance.
C3_SettledCountsNothing ==
  \A i \in DOMAIN shared :
    shared[i].is_settled =>
      calculate_net_balances(shared) = calculate_net_balances(Without(shared, i))

\* C3: the step that settles an unsettled document r takes r's contribution
\* out of every person's balance, and a settled document stays settled.
C3_SettleStep ==
  \A i \in DOMAIN shared :
    /\ i \in DOMAIN shared'
    /\ shared[i].is_settled => shared'[i].is_settled
    /\ (~shared[i].is_settled /\ shared'[i].is_settled) =>
         LET before == calculate_net_balances(shared)
             after == calculate_net_balances(shared')
         IN /\ \A p \in DOMAIN before \cup DOMAIN after :
                 BalanceOf(after, p) = BalanceOf(before, p) - Contribution(shared[i], p)
            /\ DOMAIN after = PeopleOf(shared', UnsettledOf(shared'))

\* C3: settling a document removes its contribution: the balances after
\* settle_shared_expense(r) are those before it less r's own contribution
\* (total_amount to r.paid_by, per_person_amount from each of r.participants),
\* and r adds to no balance in any later state.
C3_SettlingRemoves == []C3_SettledCountsNothing /\ [][C3_SettleStep]_vars

\* One document settled, another, with people in common, not: the balances
\* are those of the unsettled one alone.
C3_Witness ==
  \E i, j \in DOMAIN shared :
    /\ shared[i].is_settled /\ ~shared[j].is_settled
    /\ shared[i].paid_by # shared[j].paid_by
    /\ shared[i].paid_by \in Range(shared[j].participants)
    /\ Len(shared[i].participants) = 3
    /\ calculate_net_balances(shared) = calculate_net_balances(<<shared[j]>>)
    /\ calculate_net_balances(shared) # <<>>

----------------------------------------------------------------------------
\* C8: month_name(n) returns the display name of month n for n in 1..12 and
\* fails, returning no name, for every integer n outside 1..12.
C8_MonthName ==
  named.err # "pending" =>
    IF num \in 1..12
    THEN named = [err |-> "none", val |-> DisplayName(num)]
    ELSE named.err # "none"

----------------------------------------------------------------------------
\* C9: settlement mutates a shared-expense document exactly once: is_settled
\* goes from false to true at most once and never back, settled_at is null
\* exactly while is_settled is false, and once set settled_at keeps the value
\* of the first settlement (also when settle_shared_expense is invoked again,
\* on a later date); no document is removed and no other field changes.
C9_SettledOnceStep ==
  \A i \in DOMAIN shared :
    /\ i \in DOMAIN shared'
    /\ shared[i].is_settled => shared'[i].is_settled
    /\ (shared[i].settled_at = NoneDate) <=> ~shared[i].is_settled
    /\ (shared'[i].settled_at = NoneDate) <=> ~shared'[i].is_settled
    /\ shared[i].settled_at # NoneDate => shared'[i].settled_at = shared[i].settled_at
    /\ [shared'[i] EXCEPT !.is_settled = FALSE, !.settled_at = NoneDate]
         = [shared[i] EXCEPT !.is_settled = FALSE, !.settled_at = NoneDate]

\* C9: every step of the shared store keeps to that lifecycle: a document is
\* settled at most once, and its settled_at, once set, never changes.
C9_SettledOnce == [][C9_SettledOnceStep]_vars

----------------------------------------------------------------------------
\* C10: when every stored document's total_amount is an exact multiple of its
\* number of people (the payer and the listed others), the balances of
\* calculate_net_balances() sum to 0, and the payer of a single unsettled
\* document is credited total_amount less one per_person_amount.
C10_Conservation ==
  (\A i \in DOMAIN shared :
     shared[i].total_amount % Len(shared[i].participants) = 0)
  => LET bal == calculate_net_balances(shared)
         U == UnsettledOf(shared)
     IN /\ SumValues(bal) = 0
        /\ \A i \in U :
             U = {i} =>
               bal[shared[i].paid_by]
                 = shared[i].total_amount - shared[i].per_person_amount

\* Three people in a single unsettled document whose total divides evenly,
\* beside a settled one: the payer stands at two shares, the others at minus
\* one share each.
C10_Witness ==
  /\ Len(shared) = 2
  /\ shared[1].is_settled /\ ~shared[2].is_settled
  /\ shared[2].participants = <<<<"A">>, <<"B">>, <<"C">>>>
  /\ shared[2].total_amount = 9000
  /\ shared[1].total_amount % Len(shared[1].participants) = 0
  /\ calculate_net_balances(shared) =
       (<<"A">> :> 6000) @@ (<<"B">> :> -3000) @@ (<<"C">> :> -3000)

====
